---- MODULE Spec2Model ----
(***************************************************************************)
(* Model of darkaccess_doorstop:                                           *)
(*   postprocess_html.py  - the HTML Transformer (process_html and helpers)*)
(*   scons_doorstop.py    - the three build actions and auto-discovery     *)
(*                                                                         *)
(* Text is modelled at the level the code's patterns work on.  A document  *)
(* is a sequence of markup tokens (one token per tag or text run); a token *)
(* carries the parts of the tag the regular expressions look at: its href  *)
(* (a sequence of path segments), its attributes, and its character data   *)
(* (a sequence of one-character strings).                                  *)
(***************************************************************************)
EXTENDS Integers, Sequences, FiniteSets, TLC

VARIABLES
    \* ---- Transformer (postprocess_html.py) ----
    orig,          \* the document text as first read from the file
    prev,          \* the document text before the latest process_html call
    html,          \* the document text on disk
    project_name,  \* the project name passed to process_html
    applied,       \* number of completed process_html calls on the file
    tstatus,       \* "idle" | "ok" | "raised" : outcome of the latest call
    \* ---- Auto-discovery (scons_doorstop._discover_documents) ----
    reqs,          \* the requirements root: [kind, entries]
    dresult,       \* [done, raised, documents] : outcome of discovery
    \* ---- Build actions (scons_doorstop.py) ----
    act,           \* "install" | "validate" | "publish"
    pc,            \* position inside the running action
    config,        \* [project_name, documents] captured by the closures
    sub,           \* the subprocess result: [returncode, stdout, stderr, produced]
    ret,           \* <<>> while running, <<status>> once the action returned
    log,           \* sequence of externally visible events of the run
    outdir         \* the output directory: [exists, files]

vars == <<orig, prev, html, project_name, applied, tstatus,
          reqs, dresult, act, pc, config, sub, ret, log, outdir>>

tvars == <<orig, prev, html, project_name, applied, tstatus>>
dvars == <<reqs, dresult>>
bvars == <<act, pc, config, sub, ret, log, outdir>>

(***************************************************************************)
(* Bounds of the model.                                                    *)
(***************************************************************************)
MaxDocLen == 2
MaxNavLen == 3
MaxApply == 2
MaxLines == 2

(***************************************************************************)
(* Generic sequence helpers.                                               *)
(***************************************************************************)
SeqsUpTo(S, n) == UNION {[1..m -> S] : m \in 0..n}

Range(s) == {s[i] : i \in 1..Len(s)}

\* sub is a contiguous subsequence of s (Python's  sub in s  on this alphabet)
Contains(s, pat) ==
    \E i \in 0..(Len(s) - Len(pat)) :
        \A j \in 1..Len(pat) : s[i + j] = pat[j]

StartsWith(s, pat) ==
    /\ Len(s) >= Len(pat)
    /\ \A j \in 1..Len(pat) : s[j] = pat[j]

(***************************************************************************)
(* Character data: str.strip() and the replacement-template expansion that *)
(* re.sub applies to a string replacement.                                 *)
(***************************************************************************)
Whitespace == {" ", "\n", "\t", "\r", "FF", "VT"}

RECURSIVE LStrip(_, _)
LStrip(s, cs) == IF s # <<>> /\ Head(s) \in cs THEN LStrip(Tail(s), cs) ELSE s

RECURSIVE RStrip(_, _)
RStrip(s, cs) ==
    IF s # <<>> /\ s[Len(s)] \in cs THEN RStrip(SubSeq(s, 1, Len(s) - 1), cs) ELSE s

StripChars(s, cs) == RStrip(LStrip(s, cs), cs)

Strip(s) == StripChars(s, Whitespace)

Digits == {"0", "1", "2", "3", "4", "5", "6", "7", "8", "9"}
AsciiLetters ==
    {"a", "b", "c", "d", "e", "f", "g", "h", "i", "j", "k", "l", "m",
     "n", "o", "p", "q", "r", "s", "t", "u", "v", "w", "x", "y", "z",
     "A", "B", "C", "D", "E", "F", "G", "H", "I", "J", "K", "L", "M",
     "N", "O", "P", "Q", "R", "S", "T", "U", "V", "W", "X", "Y", "Z"}

\* sre_parse.ESCAPES, as far as a template of this alphabet can use it
EscapeKeys == {"a", "b", "f", "n", "r", "t", "v", "\\"}
EscapeOf(c) ==
    CASE c = "n" -> "\n" [] c = "t" -> "\t" [] c = "r" -> "\r" [] c = "\\" -> "\\"
      [] c = "a" -> "BEL" [] c = "b" -> "BS" [] c = "f" -> "FF" [] c = "v" -> "VT"

\* re's parse_template on a pattern without groups: [ok, out].
\* A backslash followed by a known escape is that character, followed by a
\* digit or by another ASCII letter is an error (invalid group reference,
\* bad escape), at the end of the template is an error, and followed by
\* anything else stays as the two characters.
RECURSIVE ExpandTemplate(_)
ExpandTemplate(s) ==
    IF s = <<>> THEN [ok |-> TRUE, out |-> <<>>]
    ELSE IF Head(s) # "\\" THEN
        LET r == ExpandTemplate(Tail(s))
        IN  [ok |-> r.ok, out |-> <<Head(s)>> \o r.out]
    ELSE IF Len(s) = 1 THEN [ok |-> FALSE, out |-> <<>>]
    ELSE LET c == s[2]
             r == ExpandTemplate(Tail(Tail(s)))
         IN  IF c \in EscapeKeys THEN [ok |-> r.ok, out |-> <<EscapeOf(c)>> \o r.out]
             ELSE IF c \in Digits \/ c \in AsciiLetters THEN [ok |-> FALSE, out |-> <<>>]
             ELSE [ok |-> r.ok, out |-> <<"\\", c>> \o r.out]

(***************************************************************************)
(* Markup tokens.                                                          *)
(***************************************************************************)
Tok(k) == [k |-> k, href |-> <<>>, attrs |-> <<>>, text |-> <<>>,
           brand |-> <<>>, links |-> <<>>, dd |-> FALSE]

TextTok         == Tok("text")
TitleTok(t)     == [Tok("title") EXCEPT !.text = t]
HtmlTok         == Tok("html")
MetaCharsetTok  == Tok("meta_charset")
MetaViewportTok == Tok("meta_viewport")
LinkTok(h)      == [Tok("link") EXCEPT !.href = h, !.attrs = <<"rel=stylesheet">>]
ScriptTok(h)    == [Tok("script") EXCEPT !.href = h]
MathJaxTok      == [Tok("script") EXCEPT !.attrs = <<"id=MathJax-script">>]
HeaderOpenTok   == Tok("header_open")
HeaderCloseTok  == Tok("header_close")
DropdownTok(t)  == [Tok("dropdown") EXCEPT !.text = t]
BodyTok         == Tok("body")
MainTok         == Tok("main")
LegacyIndexH1   == [Tok("H1") EXCEPT !.text = <<"Doorstop index">>]
LegacyTraceH1   == [Tok("H1") EXCEPT !.text = <<"Doorstop traceability matrix">>]
TableTok        == [Tok("table") EXCEPT !.attrs = <<"class=table">>]
TheadTok        == Tok("thead")
CaptionTok      == [Tok("caption") EXCEPT !.text = <<"Requirements traceability matrix">>]
AnchorTok(h)    == [Tok("a") EXCEPT !.href = h]

BOOTSTRAP_CSS_CDN ==
    [Tok("link") EXCEPT
        !.href = <<"https:", "cdn.jsdelivr.net", "npm", "bootstrap@5.3.3",
                   "dist", "css", "bootstrap.min.css">>,
        !.attrs = <<"rel=stylesheet", "integrity", "crossorigin=anonymous">>]

BOOTSTRAP_JS_CDN ==
    [Tok("script") EXCEPT
        !.href = <<"https:", "cdn.jsdelivr.net", "npm", "bootstrap@5.3.3",
                   "dist", "js", "bootstrap.bundle.min.js">>,
        !.attrs = <<"integrity", "crossorigin=anonymous">>]

INLINE_CSS == Tok("style")

DARK_MODE_JS == [Tok("script") EXCEPT !.text = <<"data-bs-theme">>]

SKIP_NAV_LINK == [Tok("a") EXCEPT !.href = <<"#main-content">>,
                                  !.text = <<"Skip to main content">>]

(***************************************************************************)
(* postprocess_html.py                                                     *)
(***************************************************************************)
Last(s) == s[Len(s)]

\* every href a token carries (a generated navbar carries three)
HrefsOf(t) == {t.href} \cup Range(t.links)

\* '../template/' in html
HasParentTemplateRef(h) ==
    \E i \in 1..Len(h) : \E r \in HrefsOf(h[i]) :
        Len(r) >= 3 /\ Contains(SubSeq(r, 1, Len(r) - 1), <<"..", "template">>)

\* '../index.html' in html
HasParentIndexRef(h) ==
    \E i \in 1..Len(h) : \E r \in HrefsOf(h[i]) : Contains(r, <<"..", "index.html">>)

compute_nav_prefix(h) ==
    IF HasParentTemplateRef(h) \/ HasParentIndexRef(h) THEN <<"..">> ELSE <<>>

extract_title(h) ==
    IF \E i \in 1..Len(h) : h[i].k = "title"
    THEN h[CHOOSE i \in 1..Len(h) :
               h[i].k = "title" /\ \A j \in 1..(i - 1) : h[j].k # "title"].text
    ELSE <<"Document">>

\* the token carries a Contents dropdown:  ...dropdown-toggle...Contents</a>
\* <ul class="dropdown-menu">(.*?)</ul></li>
HasDropdown(t) == t.k = "dropdown" \/ (t.k = "navbar" /\ t.dd)

\* None is [found |-> FALSE]
extract_contents_dropdown(h) ==
    IF \E i \in 1..Len(h) : HasDropdown(h[i])
    THEN [found |-> TRUE,
          text  |-> Strip(h[CHOOSE i \in 1..Len(h) :
                            HasDropdown(h[i])
                            /\ \A j \in 1..(i - 1) : ~HasDropdown(h[j])].text)]
    ELSE [found |-> FALSE, text |-> <<>>]

\* build_navbar with the Traceability link built without the depth prefix
build_navbar_unprefixed_trace(title, nav_prefix, has_contents_dropdown, contents_html, pname) ==
    LET brand      == IF pname # <<>> THEN pname \o <<" ", "Requirements">>
                      ELSE <<"Requirements">>
        docs_href  == nav_prefix \o <<"index.html">>
        trace_href == <<"traceability.html">>
        with_dd    == has_contents_dropdown /\ contents_html # <<>>
    IN  [Tok("navbar") EXCEPT
            !.brand = brand,
            !.links = <<docs_href, docs_href, trace_href>>,
            !.dd    = with_dd,
            !.text  = IF with_dd THEN <<"\n">> \o contents_html \o <<"\n">> ELSE <<>>]

build_navbar(title, nav_prefix, has_contents_dropdown, contents_html, pname) ==
    LET brand      == IF pname # <<>> THEN pname \o <<" ", "Requirements">>
                      ELSE <<"Requirements">>
        docs_href  == nav_prefix \o <<"index.html">>
        trace_href == nav_prefix \o <<"traceability.html">>
        with_dd    == has_contents_dropdown /\ contents_html # <<>>
    IN  [Tok("navbar") EXCEPT
            !.brand = brand,
            !.links = <<docs_href, docs_href, trace_href>>,
            !.dd    = with_dd,
            !.text  = IF with_dd THEN <<"\n">> \o contents_html \o <<"\n">> ELSE <<>>]

\* re.sub takes new_navbar as a replacement template: the text the project
\* name and the dropdown items contributed is scanned for backslash escapes
NavbarTemplate(nb) ==
    LET b == ExpandTemplate(nb.brand)
        t == ExpandTemplate(nb.text)
    IN  [ok |-> b.ok /\ t.ok, tok |-> [nb EXCEPT !.brand = b.out, !.text = t.out]]

\* the concatenation of a sequence of token sequences: a rewrite gives, for
\* every token of the text, the tokens that take its place
RECURSIVE Flatten(_)
Flatten(ss) == IF ss = <<>> THEN <<>> ELSE Head(ss) \o Flatten(Tail(ss))

HasHeaderOpen(t)  == t.k \in {"header_open", "navbar"}
HasHeaderClose(t) == t.k \in {"header_close", "navbar"}

\* re.sub(r'<header\b[^>]*>.*?</header>', new_navbar, html, flags=re.DOTALL)
RECURSIVE ReplaceHeaders(_, _)
ReplaceHeaders(h, nb) ==
    IF h = <<>> THEN <<>>
    ELSE IF Head(h).k = "navbar" THEN <<nb>> \o ReplaceHeaders(Tail(h), nb)
    ELSE IF Head(h).k = "header_open" /\ \E j \in 2..Len(h) : HasHeaderClose(h[j])
    THEN LET j == CHOOSE j \in 2..Len(h) :
                      HasHeaderClose(h[j]) /\ \A m \in 2..(j - 1) : ~HasHeaderClose(h[m])
         IN  <<nb>> \o ReplaceHeaders(SubSeq(h, j + 1, Len(h)), nb)
    ELSE <<Head(h)>> \o ReplaceHeaders(Tail(h), nb)

HeaderMatches(h) ==
    \E i \in 1..Len(h) :
        \/ h[i].k = "navbar"
        \/ h[i].k = "header_open" /\ \E j \in (i + 1)..Len(h) : HasHeaderClose(h[j])

\* re.sub(r'(<table class="table">\s*<thead>)', ...caption..., html)
RECURSIVE CaptionTables(_)
CaptionTables(h) ==
    IF h = <<>> THEN <<>>
    ELSE IF Len(h) >= 2 /\ h[1] = TableTok /\ h[2] = TheadTok
    THEN <<TableTok, CaptionTok, TheadTok>> \o CaptionTables(Tail(Tail(h)))
    ELSE <<Head(h)>> \o CaptionTables(Tail(h))

IsBootstrapCssLink(t) == t.k = "link" /\ t.href # <<>> /\ Last(t.href) = "bootstrap.min.css"
IsAuxCssLink(t) ==
    t.k = "link" /\ t.href # <<>> /\ Last(t.href) \in {"general.css", "doorstop.css"}
IsMathJax(t) ==
    t.k = "script" /\ (\E i \in 1..Len(t.attrs) :
                           t.attrs[i] \in {"id=MathJax-script", "type=text/x-mathjax-config"})
IsBootstrapJs(t) ==
    t.k = "script" /\ t.href # <<>> /\ Last(t.href) = "bootstrap.bundle.min.js"

SetLang(t)      == IF t.k = "html" THEN <<[Tok("html") EXCEPT !.attrs = <<"lang=en">>]>> ELSE <<t>>
AddViewport(t)  == IF t = MetaCharsetTok THEN <<MetaCharsetTok, MetaViewportTok>> ELSE <<t>>
CssToCdn(t)     == IF IsBootstrapCssLink(t) THEN <<BOOTSTRAP_CSS_CDN>> ELSE <<t>>
DropAuxCss(t)   == IF IsAuxCssLink(t) THEN <<>> ELSE <<t>>
InsertInline(t) == IF t = BOOTSTRAP_CSS_CDN
                   THEN <<BOOTSTRAP_CSS_CDN, INLINE_CSS, DARK_MODE_JS>> ELSE <<t>>
DropMathJax(t)  == IF IsMathJax(t) THEN <<>> ELSE <<t>>
AddSkipNav(t)   == IF t = BodyTok THEN <<BodyTok, SKIP_NAV_LINK>> ELSE <<t>>
TagMain(t)      == IF t.k = "main"
                   THEN <<[t EXCEPT !.attrs = <<"id=main-content">> \o t.attrs]>> ELSE <<t>>
JsToCdn(t)      == IF IsBootstrapJs(t) THEN <<BOOTSTRAP_JS_CDN>> ELSE <<t>>

index_heading(pname) ==
    IF pname # <<>> THEN pname \o <<" ", "Requirements">> ELSE <<"Requirements">>
trace_heading(pname) ==
    IF pname # <<>> THEN pname \o <<" ", "Traceability Matrix">> ELSE <<"Traceability Matrix">>

\* lines 172-210: the <head> replacements
HeadRewrites(h) ==
    LET h1 == Flatten([i \in 1..Len(h) |-> SetLang(h[i])])
        h2 == IF \E i \in 1..Len(h1) : h1[i].k = "meta_viewport"
              THEN h1 ELSE Flatten([i \in 1..Len(h1) |-> AddViewport(h1[i])])
        h3 == Flatten([i \in 1..Len(h2) |-> CssToCdn(h2[i])])
        h4 == Flatten([i \in 1..Len(h3) |-> DropAuxCss(h3[i])])
        h5 == Flatten([i \in 1..Len(h4) |-> InsertInline(h4[i])])
    IN  Flatten([i \in 1..Len(h5) |-> DropMathJax(h5[i])])

\* lines 222-253: body accessibility, headings, caption, script
BodyRewrites(h, pname) ==
    LET Rebrand(t) ==
            IF t = LegacyIndexH1 THEN <<[Tok("h1") EXCEPT !.text = index_heading(pname)]>>
            ELSE IF t = LegacyTraceH1 THEN <<[Tok("h1") EXCEPT !.text = trace_heading(pname)]>>
            ELSE <<t>>
        h1 == Flatten([i \in 1..Len(h) |-> AddSkipNav(h[i])])
        h2 == Flatten([i \in 1..Len(h1) |-> TagMain(h1[i])])
        h3 == Flatten([i \in 1..Len(h2) |-> Rebrand(h2[i])])
        h4 == CaptionTables(h3)
    IN  Flatten([i \in 1..Len(h4) |-> JsToCdn(h4[i])])

\* process_html on the text of one file: [ok, html].  ok = FALSE is an
\* exception raised out of process_html (the file is then not rewritten).
process_html(h, pname) ==
    LET nav_prefix    == compute_nav_prefix(h)
        title         == extract_title(h)
        hd            == HeadRewrites(h)
        contents      == extract_contents_dropdown(hd)
        new_navbar    == build_navbar(title, nav_prefix, contents.found, contents.text, pname)
        tpl           == NavbarTemplate(new_navbar)
    IN  IF ~tpl.ok THEN [ok |-> FALSE, html |-> h]
        ELSE [ok |-> TRUE, html |-> BodyRewrites(ReplaceHeaders(hd, tpl.tok), pname)]

(***************************************************************************)
(* Inputs of the Transformer.                                              *)
(***************************************************************************)
\* project names: none, plain, and with a backslash (a Windows-style name)
ProjectNames ==
    {<<>>, <<"P">>, <<"P", "\\", "n">>, <<"P", "\\", "B">>, <<"P", "\\">>}

\* the inner text of a Contents dropdown's <ul>
DropdownTexts ==
    {<<>>, <<" ">>, <<" ", "a", "b", " ">>, <<"a", "\\", "n">>, <<"a", "\\", "c">>}

TokenAlphabet ==
    {TextTok, TitleTok(<<"T">>), HtmlTok, MetaCharsetTok, MetaViewportTok,
     LinkTok(<<"template", "bootstrap.min.css">>),
     LinkTok(<<"..", "template", "bootstrap.min.css">>),
     LinkTok(<<"template", "general.css">>),
     MathJaxTok, HeaderOpenTok, HeaderCloseTok,
     BodyTok, MainTok, LegacyIndexH1, LegacyTraceH1, TableTok, TheadTok,
     ScriptTok(<<"template", "bootstrap.bundle.min.js">>),
     AnchorTok(<<"..", "index.html">>)}
    \cup {DropdownTok(t) : t \in DropdownTexts}

\* the tokens the navigation block is built from: parent-relative
\* references, the header block and the Contents dropdown
NavTokens ==
    {LinkTok(<<"..", "template", "bootstrap.min.css">>),
     AnchorTok(<<"..", "index.html">>),
     HeaderOpenTok, HeaderCloseTok}
    \cup {DropdownTok(t) : t \in DropdownTexts}

\* any tokens up to MaxDocLen, navigation tokens up to MaxNavLen
Documents == SeqsUpTo(TokenAlphabet, MaxDocLen) \cup SeqsUpTo(NavTokens, MaxNavLen)

(***************************************************************************)
(* Idle values of the parts a specification does not exercise.             *)
(***************************************************************************)
NoDocuments == [n \in {} |-> <<>>]

TransformIdle ==
    /\ orig = <<>> /\ prev = <<>> /\ html = <<>>
    /\ project_name = <<>> /\ applied = 0 /\ tstatus = "idle"

DiscoverIdle ==
    /\ reqs = [kind |-> "missing", entries |-> <<>>]
    /\ dresult = [done |-> FALSE, raised |-> FALSE, documents |-> NoDocuments]

BuildIdle ==
    /\ act = "none" /\ pc = "idle"
    /\ config = [project_name |-> <<>>, documents |-> <<>>]
    /\ sub = [returncode |-> 0, stdout |-> <<>>, stderr |-> <<>>, produced |-> <<>>]
    /\ ret = <<>> /\ log = <<>>
    /\ outdir = [exists |-> FALSE, files |-> <<>>]

(***************************************************************************)
(* Specification of the Transformer: a file holding any document is        *)
(* processed, and may be processed again.                                  *)
(***************************************************************************)
InitTransform ==
    /\ orig \in Documents
    /\ prev = orig
    /\ html = orig
    /\ project_name \in ProjectNames
    /\ applied = 0
    /\ tstatus = "idle"
    /\ DiscoverIdle
    /\ BuildIdle

\* one call of process_html(filepath, project_name): read, rewrite, write
Process ==
    /\ applied < MaxApply
    /\ tstatus # "raised"
    /\ LET r == process_html(html, project_name)
       IN  IF r.ok
           THEN /\ prev' = html
                /\ html' = r.html
                /\ applied' = applied + 1
                /\ tstatus' = "ok"
           ELSE /\ tstatus' = "raised"
                /\ UNCHANGED <<prev, html, applied>>
    /\ UNCHANGED <<orig, project_name, dvars, bvars>>

NextTransform == Process

SpecTransform == InitTransform /\ [][NextTransform]_vars

(***************************************************************************)
(* scons_doorstop._discover_documents                                      *)
(*                                                                         *)
(* A line of a marker file is a sequence of symbols (a key, ":", a blank,  *)
(* a quote, a value word, the line end).  A marker file is                 *)
(* [exists, lines, err, errkind]: err = 0 reads to the end; err = k raises *)
(* errkind when the k-th line is asked for (err = 1 also stands for open() *)
(* failing).                                                               *)
(***************************************************************************)
\* str.upper() on the directory names of the model
Upper(n) ==
    CASE n = "req" -> "REQ" [] n = "ui" -> "UI" [] OTHER -> n

\* the mutant: only OSError is caught
CaughtErrorsOnlyOS == {"OSError"}

\* except (OSError, UnicodeDecodeError): pass
CaughtErrors == {"OSError", "UnicodeDecodeError"}

\* line.split(':', 1)[1]
AfterFirstColon(line) ==
    LET i == CHOOSE i \in 1..Len(line) :
                 line[i] = ":" /\ \A j \in 1..(i - 1) : line[j] # ":"
    IN  SubSeq(line, i + 1, Len(line))

\* line.split(':', 1)[1].strip().strip('"').strip("'")
PrefixValue(line) ==
    StripChars(StripChars(Strip(AfterFirstColon(line)), {"\""}), {"'"})

\* the body of  with open(...) as f: for line in f: ...  from line i on:
\* [raised, prefix]
RECURSIVE ScanLines(_, _, _)
ScanLines(m, i, default) ==
    IF m.err = i
    THEN [raised |-> m.errkind \notin CaughtErrors, prefix |-> default]
    ELSE IF i > Len(m.lines) THEN [raised |-> FALSE, prefix |-> default]
    ELSE LET line == Strip(m.lines[i])
         IN  IF StartsWith(line, <<"prefix", ":">>)
             THEN [raised |-> FALSE, prefix |-> PrefixValue(line)]
             ELSE ScanLines(m, i + 1, default)

Qualifies(e) == e.isdir /\ e.marker.exists

\* the loop over os.listdir(reqs_dir), from the entries es on, with the
\* dict built so far: [raised, documents]
RECURSIVE DiscoverFrom(_, _)
DiscoverFrom(es, documents) ==
    IF es = <<>> THEN [raised |-> FALSE, documents |-> documents]
    ELSE LET e == Head(es)
         IN  IF ~Qualifies(e) THEN DiscoverFrom(Tail(es), documents)
             ELSE LET r == ScanLines(e.marker, 1, <<Upper(e.name)>>)
                  IN  IF r.raised THEN [raised |-> TRUE, documents |-> documents]
                      ELSE DiscoverFrom(Tail(es),
                               [n \in DOMAIN documents \cup {e.name} |->
                                   IF n = e.name THEN r.prefix ELSE documents[n]])

\* reqs.kind: "missing" (not a directory), "dir", or "unlistable" (a
\* directory os.listdir cannot read: the OSError is raised to the caller)
_discover_documents(r) ==
    IF r.kind = "missing" THEN [raised |-> FALSE, documents |-> NoDocuments]
    ELSE IF r.kind = "unlistable" THEN [raised |-> TRUE, documents |-> NoDocuments]
    ELSE DiscoverFrom(r.entries, NoDocuments)

(***************************************************************************)
(* Inputs of auto-discovery.                                               *)
(***************************************************************************)
MarkerLines ==
    {<<"prefix", ":", " ", "\"", "REQ", "\"", "\n">>,
     <<" ", "prefix", ":", " ", "'", " ", "U", ":", "I", "'", " ", "\n">>,
     <<"sep", ":", " ", "-", "\n">>}

NoMarker == [exists |-> FALSE, lines |-> <<>>, err |-> 0, errkind |-> "none"]

Markers ==
    {NoMarker}
    \cup {[exists |-> TRUE, lines |-> ls, err |-> 0, errkind |-> "none"] :
             ls \in SeqsUpTo(MarkerLines, MaxLines)}
    \cup UNION {{[exists |-> TRUE, lines |-> ls, err |-> k, errkind |-> ek] :
                    k \in 1..(IF ls = <<>> THEN 1 ELSE Len(ls)),
                    ek \in {"OSError", "UnicodeDecodeError"}} :
                ls \in SeqsUpTo(MarkerLines, MaxLines)}

DirNames == {"req", "ui"}

Entries ==
    {[name |-> n, isdir |-> FALSE, marker |-> NoMarker, files |-> <<>>] : n \in DirNames}
    \cup {[name |-> n, isdir |-> TRUE, marker |-> m, files |-> <<>>] :
             n \in DirNames, m \in Markers}

\* os.listdir gives each name once, in any order
Listings ==
    {es \in SeqsUpTo(Entries, Cardinality(DirNames)) :
        \A i, j \in 1..Len(es) : i # j => es[i].name # es[j].name}

InitDiscover ==
    /\ reqs \in {[kind |-> "missing", entries |-> <<>>],
                 [kind |-> "unlistable", entries |-> <<>>]}
                \cup {[kind |-> "dir", entries |-> es] : es \in Listings}
    /\ dresult = [done |-> FALSE, raised |-> FALSE, documents |-> NoDocuments]
    /\ TransformIdle
    /\ BuildIdle

\* one call of _discover_documents(reqs_dir)
Discover ==
    /\ ~dresult.done
    /\ LET r == _discover_documents(reqs)
       IN  dresult' = [done |-> TRUE, raised |-> r.raised, documents |-> r.documents]
    /\ UNCHANGED <<reqs, tvars, bvars>>

NextDiscover == Discover

SpecDiscover == InitDiscover /\ [][NextDiscover]_vars

(***************************************************************************)
(* scons_doorstop.py: the three build actions.                             *)
(*                                                                         *)
(* A run is one call of one action.  pc is the position in it:             *)
(*   "start" -> ... -> "done" (the action returned ret[1])                 *)
(*                  -> "raised" (an exception left the action)             *)
(* log records, in order, what the run did to the outside world.           *)
(* The output directory is [exists, files]; files maps each path of the    *)
(* model to [present, gen, doc, n]: gen tells a file found before the run  *)
(* ("old") from one the publish subprocess wrote ("new"), doc is its text  *)
(* and n the number of times process_html rewrote it.                      *)
(***************************************************************************)
MaxWords == 2

Returncodes == {0, 1, 2}

\* captured output: a sequence of words
OutputTexts == SeqsUpTo({"info", "WARNING", "ERROR"}, MaxWords)

Paths ==
    {[dir |-> "", name |-> "index", ext |-> "html"],
     [dir |-> "documents", name |-> "REQ", ext |-> "html"],
     [dir |-> "template", name |-> "base", ext |-> "html"],
     [dir |-> "template", name |-> "bootstrap.min", ext |-> "css"],
     [dir |-> "", name |-> "traceability", ext |-> "csv"]}

Absent == [present |-> FALSE, gen |-> "none", doc |-> <<>>, n |-> 0]

NoFiles == [p \in Paths |-> Absent]

\* the documents the publish subprocess writes in the model
PublishedDocs ==
    {<<BodyTok>>,
     <<LinkTok(<<"..", "template", "bootstrap.min.css">>), HeaderOpenTok, HeaderCloseTok>>,
     <<HeaderOpenTok, DropdownTok(<<"a", "\\", "c">>), HeaderCloseTok>>}

\* what a file can be after the publish subprocess ran
Written(p) ==
    {Absent}
    \cup {[present |-> TRUE, gen |-> "new", doc |-> d, n |-> 0] :
             d \in IF p.ext = "html" THEN PublishedDocs ELSE {<<TextTok>>}}

BuildNames == {<<>>, <<"P">>, <<"P", "\\", "B">>}

\* explicit 'documents' configurations: none given, or one group
ConfiguredDocuments == {NoDocuments, [n \in {"req"} |-> <<"REQ">>]}

\* item files of a document directory: [dot, ext]
ItemFile(dot, ext) == [dot |-> dot, ext |-> ext]

SampleReqs ==
    {[kind |-> "missing", entries |-> <<>>],
     [kind |-> "unlistable", entries |-> <<>>],
     [kind |-> "dir", entries |-> <<>>],
     [kind |-> "dir", entries |->
        <<[name |-> "req", isdir |-> TRUE,
           marker |-> [exists |-> TRUE,
                       lines |-> <<<<"prefix", ":", " ", "\"", "REQ", "\"", "\n">>>>,
                       err |-> 0, errkind |-> "none"],
           files |-> <<ItemFile(TRUE, "yml"), ItemFile(FALSE, "yml"), ItemFile(FALSE, "yml")>>],
          [name |-> "ui", isdir |-> TRUE,
           marker |-> [exists |-> TRUE, lines |-> <<<<"sep", ":", " ", "-", "\n">>>>,
                       err |-> 0, errkind |-> "none"],
           files |-> <<ItemFile(FALSE, "yml"), ItemFile(FALSE, "md")>>]>>]}

NoSub == [returncode |-> 0, stdout |-> <<>>, stderr |-> <<>>, produced |-> NoFiles]

Emit(e) == log' = Append(log, e)

HasEvent(kind) == \E i \in 1..Len(log) : log[i][1] = kind

\* ---- _install_deps ------------------------------------------------------
\* lines 51-61: run pip, return its status
InstallDeps ==
    /\ act = "install" /\ pc = "start"
    /\ \E rc \in Returncodes :
          /\ sub' = [NoSub EXCEPT !.returncode = rc]
          /\ ret' = <<rc>>
          /\ log' = log \o <<<<"subprocess", "pip">>>>
    /\ pc' = "done"
    /\ UNCHANGED <<act, config, outdir, reqs, dresult, tvars>>

\* ---- validate_requirements ----------------------------------------------
\* the mutant: the directory check always passes
reqs_dir_exists_always(r) == TRUE

\* line 77: os.path.exists(reqs_dir)
reqs_dir_exists(r) == r.kind # "missing"

\* the mutant: a WARNING marker fails the build too
has_errors_or_warnings(result) ==
    "ERROR" \in Range(result.stderr) \/ "WARNING" \in Range(result.stderr)

\* line 110: 'ERROR' in (result.stderr or '')
has_errors(result) == "ERROR" \in Range(result.stderr)

\* line 103: the eligible item files of one document directory
ItemCount(files) ==
    Cardinality({i \in 1..Len(files) : files[i].ext = "yml" /\ ~files[i].dot})

\* lines 98-105: the total over the document directories that exist
TotalItems(r, docs) ==
    LET dirs == {i \in 1..Len(r.entries) :
                    r.entries[i].name \in DOMAIN docs /\ r.entries[i].isdir}
        RECURSIVE Sum(_)
        Sum(S) == IF S = {} THEN 0
                  ELSE LET i == CHOOSE i \in S : TRUE
                       IN  ItemCount(r.entries[i].files) + Sum(S \ {i})
    IN  Sum(dirs)

\* lines 76-79: fail fast when the requirements directory is missing
ValidateCheckDir ==
    /\ act = "validate" /\ pc = "start"
    /\ IF reqs_dir_exists(reqs)
       THEN /\ pc' = "run"
            /\ UNCHANGED <<ret, log>>
       ELSE /\ pc' = "done"
            /\ ret' = <<1>>
            /\ Emit(<<"error", "directory not found">>)
    /\ UNCHANGED <<act, config, sub, outdir, reqs, dresult, tvars>>

\* lines 81-116: run doorstop capturing its output, resolve the documents,
\* count the items, decide on the captured standard error
ValidateRun ==
    /\ act = "validate" /\ pc = "run"
    /\ \E rc \in Returncodes, so \in OutputTexts, se \in OutputTexts :
          LET result == [NoSub EXCEPT !.returncode = rc, !.stdout = so, !.stderr = se]
              found  == IF config.documents # NoDocuments
                        THEN [raised |-> FALSE, documents |-> config.documents]
                        ELSE _discover_documents(reqs)
          IN  /\ sub' = result
              /\ IF found.raised
                 THEN /\ pc' = "raised"
                      /\ log' = log \o <<<<"subprocess", "doorstop">>>>
                      /\ UNCHANGED ret
                 ELSE /\ pc' = "done"
                      /\ log' = log \o <<<<"subprocess", "doorstop">>,
                                        <<"count", TotalItems(reqs, found.documents)>>>>
                      /\ ret' = IF has_errors(result) THEN <<1>> ELSE <<0>>
    /\ UNCHANGED <<act, config, outdir, reqs, dresult, tvars>>

\* ---- publish_requirements -----------------------------------------------
\* the mutant: the subprocess status is not looked at
publish_failed_ignored(result) == FALSE

\* line 142: result.returncode != 0
publish_failed(result) == result.returncode # 0

\* lines 132-144: recreate the output directory, run doorstop publish,
\* return its status when it failed
PublishRun ==
    /\ act = "publish" /\ pc = "start"
    /\ \E rc \in Returncodes, written \in [Paths -> UNION {Written(p) : p \in Paths}] :
          /\ \A p \in Paths : written[p] \in Written(p)
          /\ LET result == [NoSub EXCEPT !.returncode = rc, !.produced = written]
             IN  /\ sub' = result
                 /\ outdir' = [exists |-> TRUE, files |-> written]
                 /\ IF publish_failed(result)
                    THEN /\ pc' = "done"
                         /\ ret' = <<rc>>
                    ELSE /\ pc' = "post"
                         /\ UNCHANGED ret
          /\ log' = log \o (IF outdir.exists THEN <<<<"rmtree", "output">>>> ELSE <<>>)
                        \o <<<<"makedirs", "output">>, <<"subprocess", "doorstop publish">>>>
    /\ UNCHANGED <<act, config, reqs, dresult, tvars>>

\* the .html files postprocess_directory has still to visit
Unvisited == {p \in Paths : outdir.files[p].present /\ p.ext = "html"
                              /\ outdir.files[p].n = 0}

\* postprocess_directory, one file of the walk: process_html(filepath, name)
TransformFile ==
    /\ act = "publish" /\ pc = "post"
    /\ \E p \in Unvisited :
          LET r == process_html(outdir.files[p].doc, config.project_name)
          IN  IF r.ok
              THEN /\ outdir' = [outdir EXCEPT !.files[p].doc = r.html, !.files[p].n = 1]
                   /\ Emit(<<"transform", p>>)
                   /\ pc' = "post"
              ELSE /\ pc' = "raised"
                   /\ UNCHANGED <<outdir, log>>
    /\ UNCHANGED <<act, config, sub, ret, reqs, dresult, tvars>>

\* lines 150-166: after the walk, remove template/, print the manifest,
\* return 0
PublishFinish ==
    /\ act = "publish" /\ pc = "post"
    /\ Unvisited = {}
    /\ LET has_template == \E p \in Paths : p.dir = "template" /\ outdir.files[p].present
       IN  /\ outdir' = [outdir EXCEPT !.files =
                            [p \in Paths |-> IF p.dir = "template" THEN Absent
                                             ELSE outdir.files[p]]]
           /\ log' = log \o (IF has_template THEN <<<<"rmtree", "template">>>> ELSE <<>>)
                         \o <<<<"manifest", "output">>>>
    /\ ret' = <<0>>
    /\ pc' = "done"
    /\ UNCHANGED <<act, config, sub, reqs, dresult, tvars>>

\* files found in the output directory before the run
OldFiles ==
    {f \in [Paths -> {Absent, [present |-> TRUE, gen |-> "old", doc |-> <<TextTok>>, n |-> 0]}] :
        TRUE}

InitBuild ==
    /\ act \in {"install", "validate", "publish"}
    /\ pc = "start"
    /\ config \in [project_name : BuildNames, documents : ConfiguredDocuments]
    /\ reqs \in SampleReqs
    /\ sub = NoSub
    /\ ret = <<>>
    /\ log = <<>>
    /\ outdir \in {[exists |-> FALSE, files |-> NoFiles]}
                  \cup {[exists |-> TRUE, files |-> f] : f \in OldFiles}
    /\ (act = "install") => (config.project_name = <<>> /\ config.documents = NoDocuments
                             /\ reqs.kind = "missing" /\ ~outdir.exists)
    /\ (act = "validate") => ~outdir.exists
    /\ (act = "publish") => (config.documents = NoDocuments /\ reqs.kind = "dir"
                             /\ reqs.entries = <<>>)
    /\ dresult = [done |-> FALSE, raised |-> FALSE, documents |-> NoDocuments]
    /\ TransformIdle

NextBuild ==
    \/ InstallDeps
    \/ ValidateCheckDir
    \/ ValidateRun
    \/ PublishRun
    \/ TransformFile
    \/ PublishFinish

SpecBuild == InitBuild /\ [][NextBuild]_vars

(***************************************************************************)
(* Claims about the build actions.                                         *)
(***************************************************************************)
SubprocessRan == HasEvent("subprocess")

TemplateRemoved == \E i \in 1..Len(log) : log[i] = <<"rmtree", "template">>

\* C1: when the publish subprocess returns non-zero, the action returns
\* that status and leaves the output directory as the subprocess produced
\* it: no file is transformed and the template directory is not removed.
C1_PublishFailureLeavesOutput ==
    (act = "publish" /\ SubprocessRan /\ sub.returncode # 0) =>
        /\ pc = "done"
        /\ ret = <<sub.returncode>>
        /\ outdir.files = sub.produced
        /\ ~HasEvent("transform")
        /\ ~TemplateRemoved

\* a failed publish that left .html files and template files behind
C1_Witness ==
    /\ act = "publish" /\ pc = "done" /\ sub.returncode = 2
    /\ \E p \in Paths : p.ext = "html" /\ p.dir = "" /\ outdir.files[p].present
    /\ \E p \in Paths : p.dir = "template" /\ outdir.files[p].present

Combined == Range(sub.stdout) \cup Range(sub.stderr)

ValidateReturned == act = "validate" /\ pc = "done" /\ reqs.kind # "missing"

C3_SubprocessFailurePropagates ==
    (pc = "done" /\ SubprocessRan /\ sub.returncode # 0) => ret = <<sub.returncode>>

\* C4: with the requirements directory missing, validate returns 1 and
\* neither starts the subprocess nor counts items.
C4_MissingDirFailsFast ==
    (act = "validate" /\ reqs.kind = "missing") =>
        /\ pc \in {"start", "done"}
        /\ ~SubprocessRan
        /\ ~HasEvent("count")
        /\ (pc = "done" => ret = <<1>>)

\* validate returned on a missing requirements directory
C4_Witness ==
    /\ act = "validate" /\ reqs.kind = "missing"
    /\ pc = "done" /\ ret = <<1>>
    /\ log = <<<<"error", "directory not found">>>>

PublishedHtml == {p \in Paths : sub.produced[p].present /\ p.ext = "html"}

\* the log of a publish run in the claimed order: clean, subprocess, one
\* transform per published .html file, template removal, manifest
ClaimedPublishOrder ==
    \E a \in 2..3, b \in 1..2 :
        /\ Len(log) = a + Cardinality(PublishedHtml) + b
        /\ SubSeq(log, 1, a) \in
              {<<<<"makedirs", "output">>, <<"subprocess", "doorstop publish">>>>,
               <<<<"rmtree", "output">>, <<"makedirs", "output">>,
                 <<"subprocess", "doorstop publish">>>>}
        /\ {log[i] : i \in (a + 1)..(Len(log) - b)} =
              {<<"transform", p>> : p \in PublishedHtml}
        /\ SubSeq(log, Len(log) - b + 1, Len(log)) \in
              {<<<<"manifest", "output">>>>,
               <<<<"rmtree", "template">>, <<"manifest", "output">>>>}

\* C10: a publish run whose subprocess succeeded cleans the output
\* directory, runs the subprocess, transforms every .html file exactly
\* once, removes the template directory, prints the manifest and returns
\* 0; in the end no file from before the run remains, no template file
\* remains, and every .html file left was transformed.
C10_PublishSuccessSteps ==
    (act = "publish" /\ pc \in {"done", "raised"} /\ SubprocessRan /\ sub.returncode = 0) =>
        /\ pc = "done"
        /\ ret = <<0>>
        /\ ClaimedPublishOrder
        /\ \A p \in Paths : outdir.files[p].present =>
              /\ outdir.files[p].gen = "new"
              /\ p.dir # "template"
              /\ (p.ext = "html" => outdir.files[p].n = 1)

(***************************************************************************)
(* Claims about auto-discovery.                                            *)
(***************************************************************************)
IsPrefixLine(line) == StartsWith(Strip(line), <<"prefix", ":">>)

\* the text after 'prefix:', trimmed of surrounding whitespace and then of
\* surrounding double and single quotes
TrimmedPrefix(line) ==
    LET v == SubSeq(Strip(line), 3, Len(Strip(line)))
    IN  StripChars(StripChars(Strip(v), {"\""}), {"'"})

\* what the claim expects for a qualifying subdirectory
ExpectedPrefix(e) ==
    LET m    == e.marker
        hits == {i \in 1..Len(m.lines) : IsPrefixLine(m.lines[i])}
    IN  IF hits # {} /\ (m.err = 0 \/ \E i \in hits : i < m.err)
        THEN TrimmedPrefix(m.lines[CHOOSE i \in hits : \A j \in hits : i <= j])
        ELSE <<Upper(e.name)>>

\* C9: discovery returns exactly the subdirectories holding the marker
\* file, each mapped to the trimmed value of the first 'prefix:' line of
\* its marker file, or to its upper-cased name when there is no such line
\* or the file cannot be read; a read error of a marker file is not raised.
C9_DiscoveryResult ==
    (dresult.done /\ reqs.kind = "dir") =>
        /\ ~dresult.raised
        /\ DOMAIN dresult.documents =
              {reqs.entries[i].name : i \in {j \in 1..Len(reqs.entries) :
                  reqs.entries[j].isdir /\ reqs.entries[j].marker.exists}}
        /\ \A i \in 1..Len(reqs.entries) :
              (reqs.entries[i].isdir /\ reqs.entries[i].marker.exists) =>
                  dresult.documents[reqs.entries[i].name] = ExpectedPrefix(reqs.entries[i])

\* req/ with prefix: "REQ" and ui/ whose marker file has no prefix line
C9_Witness ==
    /\ dresult.done
    /\ reqs.kind = "dir"
    /\ \E i, j \in 1..Len(reqs.entries) :
          /\ reqs.entries[i].name = "req"
          /\ reqs.entries[i].marker.lines = <<<<"prefix", ":", " ", "\"", "REQ", "\"", "\n">>>>
          /\ reqs.entries[j].name = "ui"
          /\ reqs.entries[j].isdir /\ reqs.entries[j].marker.exists
          /\ reqs.entries[j].marker.lines = <<<<"sep", ":", " ", "-", "\n">>>>
    /\ dresult.documents = [n \in {"req", "ui"} |-> IF n = "req" THEN <<"REQ">> ELSE <<"UI">>]

(***************************************************************************)
(* Claims about the Transformer.                                           *)
(***************************************************************************)
FirstCallDone == tstatus # "idle" /\ applied <= 1

NavbarsOf(h) == {i \in 1..Len(h) : h[i].k = "navbar"}

\* one of the rewrite rules' target patterns matches the text
TargetPatternMatches(h) ==
    \/ \E i \in 1..Len(h) :
          \/ IsBootstrapCssLink(h[i])
          \/ h[i] = BodyTok
          \/ h[i].k = "main"
          \/ h[i] \in {LegacyIndexH1, LegacyTraceH1}
          \/ IsBootstrapJs(h[i])
    \/ HeaderMatches(h)
    \/ CaptionTables(h) # h

\* C5: after one application of process_html no rewrite rule's target
\* pattern matches the result, and a second application changes nothing.
C5_SecondApplicationInert ==
    /\ (applied >= 1 /\ tstatus = "ok") => ~TargetPatternMatches(html)
    /\ (applied = 2 /\ tstatus = "ok") => html = prev

\* the entries of the first Contents dropdown of a document
DropdownItems(h) ==
    Strip(h[CHOOSE i \in 1..Len(h) :
               h[i].k = "dropdown" /\ \A j \in 1..(i - 1) : h[j].k # "dropdown"].text)

OrigHasDropdown == \E i \in 1..Len(orig) : orig[i].k = "dropdown"

\* C6: a document with a Contents dropdown (and a header block to replace)
\* is transformed into one whose navigation holds a Contents dropdown with
\* the same entries in the same order, whatever the item list.
C6_ContentsDropdownPreserved ==
    (FirstCallDone /\ OrigHasDropdown /\ HeaderMatches(orig)) =>
        /\ tstatus = "ok"
        /\ NavbarsOf(html) # {}
        /\ \A i \in NavbarsOf(html) :
              html[i].dd /\ Strip(html[i].text) = DropdownItems(orig)

RewriteTarget(h) ==
    \/ TargetPatternMatches(h)
    \/ \E i \in 1..Len(h) :
          \/ h[i].k = "html"
          \/ h[i] = MetaCharsetTok
          \/ IsAuxCssLink(h[i])
          \/ IsMathJax(h[i])

\* C8: process_html never raises, and a document holding none of the
\* targeted patterns is written back unchanged.
C8_NeverRaises ==
    /\ tstatus # "raised"
    /\ (applied = 1 /\ tstatus = "ok" /\ ~RewriteTarget(orig)) => html = orig

====
